---- MODULE Spec2Model ----
(***************************************************************************)
(* FavScene for Spotify: the Cloudflare Worker that syncs a user's scenes  *)
(* through a key-value store (worker/index.ts, worker/crypto.ts).          *)
(*                                                                         *)
(* Strings are modelled by their structure.  A JSON text is a syntax tree  *)
(* with its insignificant whitespace; a base64 blob is the sealed          *)
(* plaintext together with the nonce and the key it was sealed under.      *)
(* JSON.parse and JSON.stringify are computed on that structure: parse     *)
(* skips whitespace and reads the number literal 1e999 as Infinity,        *)
(* stringify writes no whitespace and writes Infinity as null.             *)
(***************************************************************************)
EXTENDS Integers, Sequences, FiniteSets, TLC

\* ---------------------------------------------------------------- bounds
MaxArrivals == 2      \* requests that arrive in one behaviour
MaxNonce == 2         \* distinct values the random nonce can take
MaxCalls == 2         \* calls of useScenes functions in one behaviour
MaxPlays == 3         \* calls of playScene and playOnDevice in one behaviour

\* ------------------------------------------------------ program constants
MAX_SCENES == 50
MAX_BODY_SIZE == 51200
HTTP_OK == 200
HTTP_BAD_REQUEST == 400
HTTP_UNAUTHORIZED == 401
HTTP_NOT_FOUND == 404
HTTP_MOVED_PERMANENTLY == 301
HTTP_METHOD_NOT_ALLOWED == 405
HTTP_PAYLOAD_TOO_LARGE == 413
HTTP_INTERNAL_ERROR == 500
KV_KEY_PREFIX == "scenes:"
BEARER_PREFIX == "Bearer "

\* ------------------------------------------------------------- identities
Users == {"u1", "u2"}
NoUser == "null"

\* bytesToHex(sha256(userId)).slice(0, 32), on the identities of the model.
\* SHA-256 is taken as collision-free: the digests of distinct identities
\* differ, and no digest is itself the raw string of an identity.
Sha256Hex32(userId) == CASE userId = "u1" -> "h1"
                         [] userId = "u2" -> "h2"
                         [] OTHER -> "hx"

hashUserIdForKey(userId) == Sha256Hex32(userId)

\* the characters of bytesToHex(hash).slice(0, KEY_HASH_LENGTH): two hex
\* digits for each byte of the digest, cut at KEY_HASH_LENGTH
SHA256_BYTES == 32
KEY_HASH_LENGTH == 32
HashKeyChars ==
  IF 2 * SHA256_BYTES < KEY_HASH_LENGTH THEN 2 * SHA256_BYTES ELSE KEY_HASH_LENGTH

\* the full digest, used as the AES-256 key
deriveKey(userId) == <<"sha256", userId>>
NoKey == <<"none", "none">>

buildKVKeyMutShared(userId) == <<KV_KEY_PREFIX, hashUserIdForKey("u1")>>
buildKVKey(userId) == <<KV_KEY_PREFIX, hashUserIdForKey(userId)>>
buildLegacyKVKeyMutShared(userId) == <<KV_KEY_PREFIX, "u2">>
buildLegacyKVKey(userId) == <<KV_KEY_PREFIX, userId>>

\* the keys of the namespace that the model follows
KVKeys == {<<KV_KEY_PREFIX, s>> : s \in Users \cup {Sha256Hex32(u) : u \in Users}}

\* ------------------------------------------------------------------ JSON
\* A scene in a JSON text: its id and the literal of its volume.
SceneText(id, lit) == [id |-> id, volume |-> lit]

\* number literal -> JS value (JSON.parse); 1e999 overflows to Infinity
ParseNumber(lit) == CASE lit = "40" -> "num40"
                      [] lit = "70" -> "num70"
                      [] lit = "1e999" -> "Infinity"
                      [] OTHER -> "null"
\* JS value -> literal (JSON.stringify); non-finite numbers become null
StringifyNumber(v) == CASE v = "num40" -> "40"
                        [] v = "num70" -> "70"
                        [] OTHER -> "null"

ParseScene(s) == [id |-> s.id, volume |-> ParseNumber(s.volume)]
StringifyScene(s) == [id |-> s.id, volume |-> StringifyNumber(s.volume)]

MapParse(items) == [i \in 1..Len(items) |-> ParseScene(items[i])]
MapStringify(items) == [i \in 1..Len(items) |-> StringifyScene(items[i])]

\* A document (text side) or a value (JS side):
\*   t     top-level type: "obj" "arr" "null" "num" "str", or "throw"
\*   sc    type of the scenes member of an object: "arr" "str" "num"
\*         "null", or "missing"
\*   items the elements of the scenes array
\*   extra whether the object has a further member
Doc(t, sc, items, extra) == [t |-> t, sc |-> sc, items |-> items, extra |-> extra]
NoDoc == Doc("none", "missing", <<>>, FALSE)
SyntaxError == Doc("throw", "missing", <<>>, FALSE)
ScenesDoc(items) == Doc("obj", "arr", items, FALSE)
EmptyPayload == ScenesDoc(<<>>)

\* A string: k is "json" (a JSON text), "junk" (not JSON, not starting with
\* a brace), "bracejunk" (not JSON, starting with a brace), "empty", or
\* "null" (no string: what KV.get returns for a missing key).
\* lead/pad count the whitespace before and after a JSON text.
\* enc: the string is btoa(iv + ciphertext + tag) of the text described by
\* the other fields, sealed with nonce iv under key.
\* tampered: characters of the base64 text were changed so that it no longer
\* decodes to the bytes that were sealed (or no longer decodes at all).
\* slack: the last character before the padding was changed in the bits
\* that encode no byte; atob discards them, the decoded bytes are the same.
Str(k, lead, pad, doc) ==
  [k |-> k, lead |-> lead, pad |-> pad, doc |-> doc,
   enc |-> FALSE, iv |-> 0, key |-> NoKey, tampered |-> FALSE, slack |-> 0]
NullStr == Str("null", 0, 0, NoDoc)
EmptyStr == Str("empty", 0, 0, NoDoc)
JunkStr == Str("junk", 0, 0, NoDoc)
BraceJunkStr == Str("bracejunk", 0, 0, NoDoc)
JsonText(doc) == Str("json", 0, 0, doc)

\* the text inside a string's description, without the envelope
Plain(s) == Str(s.k, s.lead, s.pad, s.doc)

JSONparse(text) ==
  IF text.enc \/ text.k # "json" THEN SyntaxError
  ELSE Doc(text.doc.t, text.doc.sc, MapParse(text.doc.items), text.doc.extra)

JSONstringify(v) == JsonText(Doc(v.t, v.sc, MapStringify(v.items), v.extra))

\* !stored
FalsyMutNullOnly(s) == s.k = "null"
FalsyMutAlways(s) == TRUE
Falsy(s) == s.k \in {"null", "empty"}

StartsWithBrace(s) ==
  /\ ~s.enc
  /\ \/ s.k = "bracejunk"
     \/ s.k = "json" /\ s.lead = 0 /\ s.doc.t = "obj"

\* ---------------------------------------------------------------- crypto
isEncryptedMutAlways(value) == TRUE
isEncryptedMutBase64(value) == value.enc
isEncrypted(value) == ~StartsWithBrace(value)

encryptMutPlain(plaintext, userId, iv) == plaintext
encrypt(plaintext, userId, iv) ==
  [plaintext EXCEPT !.enc = TRUE, !.iv = iv, !.key = deriveKey(userId),
                    !.tampered = FALSE, !.slack = 0]

\* the decrypted text, or NullStr when atob or the GCM tag check throws
decryptMutNoTag(encrypted, userId) ==
  IF encrypted.enc /\ encrypted.key = deriveKey(userId)
  THEN Plain(encrypted)
  ELSE NullStr
decryptMutAnyKey(encrypted, userId) ==
  IF encrypted.enc /\ ~encrypted.tampered THEN Plain(encrypted) ELSE NullStr
decrypt(encrypted, userId) ==
  IF encrypted.enc /\ ~encrypted.tampered /\ encrypted.key = deriveKey(userId)
  THEN Plain(encrypted)
  ELSE NullStr

\* ------------------------------------------------------------- responses
\* status; kind "payload" (a ScenesPayload), "ok" ({ok: true}), "error"
\* ({error: msg}), "none" (no body); text: the body of a payload response;
\* cors / ctype: the CORS headers / Content-Type: application/json are set
Response(status, kind, text, msg, cors, ctype) ==
  [status |-> status, kind |-> kind, text |-> text, msg |-> msg,
   cors |-> cors, ctype |-> ctype]
NoResponse == Response(0, "none", NullStr, "", FALSE, FALSE)

jsonResponse(kind, data, msg, status) ==
  Response(status, kind,
           IF kind = "payload" THEN JSONstringify(data) ELSE NullStr,
           msg, TRUE, TRUE)
payloadResponse(payload) == jsonResponse("payload", payload, "", HTTP_OK)
okResponse == jsonResponse("ok", NoDoc, "", HTTP_OK)
errorResponse(msg, status) == jsonResponse("error", NoDoc, msg, status)

\* export default { fetch }: an exception that escapes handleRequest
internalErrorResponseMutLeak ==
  errorResponse("TypeError: Cannot read properties of null (reading 'scenes')",
                HTTP_INTERNAL_ERROR)
internalErrorResponse == errorResponse("Internal server error", HTTP_INTERNAL_ERROR)

\* ---------------------------------------------------------------- inputs
Slots == {"r1", "r2"}
Methods == {"GET", "PUT", "OPTIONS", "DELETE"}
Paths == {"/api/scenes", "/api/other", "/index.html"}
\* url.protocol and url.hostname; the Authorization header: absent, another
\* scheme, or Bearer <token>
Https == [protocol |-> "https:", hostname |-> "favscene.app"]
Http == [protocol |-> "http:", hostname |-> "favscene.app"]
HttpLocal == [protocol |-> "http:", hostname |-> "localhost"]
NoAuth == [scheme |-> "none", token |-> ""]
Bearer(token) == [scheme |-> BEARER_PREFIX, token |-> token]
Req(method, path, url, auth) ==
  [method |-> method, path |-> path, url |-> url, auth |-> auth]

\* The requests that arrive: each branch of handleRequest is taken by a few
\* representative requests.  Every method is sent with the token of "u1";
\* the second identity sends GET and PUT, the unknown token GET.
Requests ==
  {Req(m, "/index.html", Https, NoAuth) : m \in {"GET", "OPTIONS"}}
  \cup {Req("GET", "/index.html", Http, NoAuth)}
  \cup {Req(m, "/api/other", Https, NoAuth) : m \in {"GET", "OPTIONS", "DELETE"}}
  \cup {Req("GET", "/api/other", u, NoAuth) : u \in {Http, HttpLocal}}
  \cup {Req("OPTIONS", "/api/scenes", u, NoAuth) : u \in {Https, Http}}
  \cup {Req(m, "/api/scenes", Http, a) :
          m \in {"GET", "PUT"}, a \in {NoAuth, Bearer("t_u1")}}
  \cup {Req("GET", "/api/scenes", HttpLocal, NoAuth)}
  \cup {Req(m, "/api/scenes", Https, a) :
          m \in {"GET", "PUT", "DELETE"}, a \in {NoAuth, Bearer("t_u1")}}
  \cup {Req(m, "/api/scenes", Https, a) :
          m \in {"GET", "PUT"},
          a \in {[scheme |-> "Basic ", token |-> "t_u1"], Bearer("t_u2")}}
  \cup {Req("GET", "/api/scenes", Https, Bearer("t_bad"))}

\* Slot "r2" is taken only while "r1" is busy: it carries the traffic that
\* runs concurrently with the request in "r1", a GET or a PUT of either
\* identity that is authenticated and well-formed.
ConcurrentRequests ==
  {Req(m, "/api/scenes", Https, Bearer(t)) :
     m \in {"GET", "PUT"}, t \in {"t_u1", "t_u2"}}
RequestsOf(r) == IF r = "r1" THEN Requests ELSE ConcurrentRequests

\* the identity the provider associates with a token
TokenOwner(token) == CASE token = "t_u1" -> "u1"
                       [] token = "t_u2" -> "u2"
                       [] OTHER -> NoUser

\* What GET https://api.spotify.com/v1/me can do with a token: answer 200
\* with the owner's profile, answer non-2xx, fail in transport, answer 200
\* with a body that is not JSON, or with JSON that has no id.  All of them
\* are drawn for a GET with the token of "u1".
IdpOutcomes(method, token) ==
  CASE token = "t_u1" /\ method = "GET" ->
         {"profile", "rejected", "network", "notjson", "noid"}
    [] token = "t_bad" -> {"rejected", "network"}
    [] OTHER -> {"profile", "rejected"}
OutcomesOf(r, method, token) ==
  IF r = "r1" THEN IdpOutcomes(method, token) ELSE {"profile"}

\* validateSpotifyToken (lines 74-93): data.id of a 2xx JSON answer, null
\* after a non-2xx answer or an exception; an answer without id gives
\* undefined, which line 217 treats as null
validateSpotifyTokenMutNoId(token, outcome) ==
  IF outcome \in {"profile", "noid"} THEN TokenOwner(token) ELSE NoUser
validateSpotifyTokenMutFallback(token, outcome) ==
  IF outcome = "profile" THEN TokenOwner(token) ELSE "u1"
validateSpotifyToken(token, outcome) ==
  IF outcome = "profile" THEN TokenOwner(token) ELSE NoUser

\* line 186: url.pathname.startsWith('/api/')
isApiRouteMutAll(path) == TRUE
isApiRoute(path) == path \in {"/api/scenes", "/api/other"}

\* line 200: url.protocol === 'http:' && url.hostname !== 'localhost'
mustRedirectMutNever(url) == FALSE
mustRedirect(url) == url.protocol = "http:" /\ url.hostname # "localhost"

\* line 231
methodNotAllowedMutNotFound == errorResponse("Not found", HTTP_NOT_FOUND)
methodNotAllowed == errorResponse("Method not allowed", HTTP_METHOD_NOT_ALLOWED)

\* line 207: !authHeader || !authHeader.startsWith(BEARER_PREFIX)
missingOrInvalidAuthMutPresence(authHeader) == authHeader.scheme = "none"
missingOrInvalidAuth(authHeader) == authHeader.scheme # BEARER_PREFIX

\* Content-Length header: absent (-1), not a number (-2), or a number
UnderReported == 10
ContentLengths == {-1, -2, UnderReported, MAX_BODY_SIZE, MAX_BODY_SIZE + 1}

\* line 138: contentLength && parseInt(contentLength, 10) > MAX_BODY_SIZE;
\* an absent header is falsy, parseInt of a non-number is NaN and NaN > n
\* is false
declaredTooLargeMutInclusive(contentLength) ==
  contentLength >= 0 /\ contentLength >= MAX_BODY_SIZE
declaredTooLarge(contentLength) ==
  contentLength >= 0 /\ contentLength > MAX_BODY_SIZE

S1 == SceneText("s1", "40")
S2 == SceneText("s2", "40")
SInf == SceneText("s1", "1e999")
\* a scene whose name is WideChars characters of two UTF-8 bytes each
SWide == SceneText("wide", "40")
Fifty == [i \in 1..MAX_SCENES |-> S1]

\* characters of the JSON text of a scene and of the empty payload
SceneChars == 40
EnvelopeChars == 13
WideChars == 26000

\* UTF-16 code units and UTF-8 bytes of a scene in a JSON text
ItemUnits(item) == SceneChars + IF item.id = "wide" THEN WideChars ELSE 0
ItemBytes(item) == SceneChars + IF item.id = "wide" THEN 2 * WideChars ELSE 0

RECURSIVE SumUnits(_)
SumUnits(items) ==
  IF items = <<>> THEN 0 ELSE ItemUnits(Head(items)) + SumUnits(Tail(items))
RECURSIVE SumBytes(_)
SumBytes(items) ==
  IF items = <<>> THEN 0 ELSE ItemBytes(Head(items)) + SumBytes(Tail(items))

\* bodies at the size limit: exactly MAX_BODY_SIZE characters, and one more
ExactBody == Str("json", 0, MAX_BODY_SIZE - EnvelopeChars, ScenesDoc(<<>>))
OversizeBody == Str("json", 0, MAX_BODY_SIZE - EnvelopeChars + 1, ScenesDoc(<<>>))
\* fewer than MAX_BODY_SIZE characters, more than MAX_BODY_SIZE bytes
WideBody == JsonText(ScenesDoc(<<SWide>>))

\* request bodies
Bodies ==
  { JsonText(ScenesDoc(<<>>)),
    Str("json", 1, 1, ScenesDoc(<<S2, S1>>)),
    JsonText(ScenesDoc(<<SInf>>)),
    JsonText(ScenesDoc(Fifty)),
    JsonText(ScenesDoc(Append(Fifty, S1))),
    WideBody,
    OversizeBody,
    JunkStr,
    JsonText(Doc("obj", "missing", <<>>, FALSE)),
    JsonText(Doc("obj", "str", <<>>, FALSE)),
    JsonText(Doc("obj", "null", <<>>, FALSE)),
    JsonText(Doc("arr", "missing", <<>>, FALSE)),
    JsonText(Doc("str", "missing", <<>>, FALSE)),
    JsonText(Doc("num", "missing", <<>>, FALSE)),
    JsonText(Doc("null", "missing", <<>>, FALSE)) }

\* the bodies an identity sends: all of them for "u1", the accepted ones
\* and one rejected one for the second identity
BodiesOf(userId) ==
  IF userId = "u1" THEN Bodies
  ELSE {b \in Bodies : b.k = "junk" \/ (b.doc.sc = "arr" /\ b.pad <= 1
                                         /\ Len(b.doc.items) = 2)}

\* the Content-Length headers an identity sends, and the bodies that come
\* with each: any body without the header; an oversize body behind a header
\* that is not a number or under-reports; a body of exactly the declared
\* MAX_BODY_SIZE
\* The concurrent traffic of "r2" sends no header and one accepted body,
\* which is read without error.
ContentLengthsOf(r, userId) ==
  IF r = "r1" /\ userId = "u1" THEN ContentLengths ELSE {-1}
BodiesFor(r, userId, contentLength) ==
  CASE r # "r1" -> {Str("json", 1, 1, ScenesDoc(<<S2, S1>>))}
    [] contentLength = -1 -> BodiesOf(userId)
    [] contentLength = MAX_BODY_SIZE -> {ExactBody}
    [] OTHER -> {OversizeBody}

\* body.length: the UTF-16 code units of the text and its whitespace
Length(s) ==
  IF s.k # "json" THEN 7
  ELSE s.lead + s.pad + EnvelopeChars + SumUnits(s.doc.items)

\* the bytes of the body on the wire (UTF-8)
ByteLength(s) ==
  IF s.k # "json" THEN 7
  ELSE s.lead + s.pad + EnvelopeChars + SumBytes(s.doc.items)

\* ---------------------------------------------------------- client state
\* useScenes.ts: module state before the first call.  scenes.value refers to
\* an array object: heap holds the arrays that were created, cur is the one
\* scenes.value refers to.  tasks are the calls of syncToApi and
\* initializeScenes, in the order they were started.  last describes the
\* latest call of an exported function.
NoCall ==
  [op |-> "none", id |-> "none", before |-> <<>>, after |-> <<>>,
   ret |-> "none", task |-> 0]
ClientIdle ==
  [heap |-> << <<>> >>, cur |-> 1, isLoading |-> FALSE, syncError |-> "null",
   tasks |-> <<>>, calls |-> 0, nextId |-> 1, last |-> NoCall, log |-> <<>>]

\* HomeView.vue: the refs of lines 49-53 before the first event.  calls are
\* the calls of playScene and playOnDevice in the order they were made.
\* owner is the playScene call that set playingSceneId, pendingOwner the
\* one that set pendingScene (0: none); clear names the call that last
\* cleared playingSceneId (by) and the call that owned it then (of);
\* dropped: a playOnDevice returned at its first line.
ViewIdle ==
  [playingSceneId |-> "null", errorMessage |-> "null",
   showDevicePicker |-> FALSE, availableDevices |-> {},
   pendingScene |-> "null", calls |-> <<>>,
   owner |-> 0, pendingOwner |-> 0, clear |-> [by |-> 0, of |-> 0],
   dropped |-> FALSE]

\* ----------------------------------------------------------------- state
VARIABLES
  kv,        \* env.FAVSCENE_USER_SCENES: key -> stored string
  slots,     \* the requests in flight: locals and position of each
  arrivals,  \* requests that have arrived
  lastPut,   \* per identity, the payload of its latest completed save
  done,      \* the request that the last step completed, with its response
  client,    \* the web client's useScenes state and its calls in flight
  view       \* HomeView's playback state and its calls in flight

vars == <<kv, slots, arrivals, lastPut, done, client, view>>

Idle ==
  [pc |-> "idle", method |-> "none", path |-> "none",
   url |-> [protocol |-> "none", hostname |-> "none"],
   auth |-> [scheme |-> "none", token |-> ""],
   cl |-> -1, body |-> NullStr, userId |-> NoUser, payload |-> NoDoc,
   blob |-> NullStr,
   cur |-> NullStr, leg |-> NullStr, stored |-> NullStr,
   resp |-> NoResponse, idp |-> 0, outcome |-> "none", ops |-> <<>>,
   seen |-> NoDoc, kvError |-> FALSE, over |-> NoDoc]

\* What the store may hold before the first request: nothing, records
\* written by this worker, records written by the previous worker
\* (JSON.stringify(payload) under the raw-identity key), and records damaged
\* or replaced by hand.  The varied entries are those of "u1".
Blob(doc, userId, iv) == encrypt(JSONstringify(doc), userId, iv)
LegacyValues ==
  {NullStr, JSONstringify(ScenesDoc(<<ParseScene(S1)>>)), BraceJunkStr,
   JsonText(Doc("obj", "missing", <<>>, FALSE))}
CurrentValues ==
  {NullStr, EmptyStr, JunkStr,
   Blob(ScenesDoc(<<ParseScene(S2)>>), "u1", 1),
   Blob(ScenesDoc(<<ParseScene(S2)>>), "u2", 1),
   [Blob(ScenesDoc(<<ParseScene(S2)>>), "u1", 1) EXCEPT !.tampered = TRUE],
   [Blob(ScenesDoc(<<ParseScene(S2)>>), "u1", 1) EXCEPT !.slack = 1],
   encrypt(JunkStr, "u1", 1),
   JSONstringify(ScenesDoc(<<ParseScene(S2)>>))}

Store(a, b, c) ==
  [k \in KVKeys |->
      CASE k = <<KV_KEY_PREFIX, "u1">> -> a
        [] k = <<KV_KEY_PREFIX, Sha256Hex32("u1")>> -> b
        [] k = <<KV_KEY_PREFIX, "u2">> -> c
        [] OTHER -> NullStr]

LegacyU2 == JSONstringify(ScenesDoc(<<ParseScene(S1)>>))

InitStores ==
  {Store(NullStr, b, LegacyU2) : b \in CurrentValues}
  \cup {Store(a, NullStr, LegacyU2) : a \in LegacyValues}
  \cup {Store(JSONstringify(ScenesDoc(<<ParseScene(S1)>>)), b, LegacyU2) :
          b \in {EmptyStr, Blob(ScenesDoc(<<ParseScene(S2)>>), "u1", 1)}}

Init ==
  /\ kv \in InitStores
  /\ slots = [r \in Slots |-> Idle]
  /\ arrivals = 0
  /\ lastPut = [u \in Users |-> NoDoc]
  /\ done = Idle
  /\ client = ClientIdle
  /\ view = ViewIdle

\* ------------------------------------------------------ handleGetScenes
\* payload.scenes.length throws a TypeError
ScenesLengthThrows(payload) ==
  \/ payload.t # "obj"
  \/ payload.sc \in {"missing", "null"}

\* lines 122-132: the try block over the stored string
decodeStored(stored, userId) ==
  LET jsonString == IF isEncrypted(stored) THEN decrypt(stored, userId)
                    ELSE stored
      payload == JSONparse(jsonString)
  IN IF jsonString.k = "null" \/ payload.t = "throw"
        \/ ScenesLengthThrows(payload)
     THEN payloadResponse(EmptyPayload)
     ELSE payloadResponse(payload)

\* ------------------------------------------------------ handlePutScenes
\* lines 150-167: the response that rejects the body, or NoResponse
validateBodyMutOffByOne(body) ==
  LET payload == JSONparse(body) IN
  IF Length(body) > MAX_BODY_SIZE
  THEN errorResponse("Payload too large. Maximum 50KB allowed.",
                     HTTP_PAYLOAD_TOO_LARGE)
  ELSE IF payload.t = "throw"
  THEN errorResponse("Invalid JSON", HTTP_BAD_REQUEST)
  ELSE IF payload.t = "null"
  THEN internalErrorResponse
  ELSE IF ~(payload.t = "obj" /\ payload.sc = "arr")
  THEN errorResponse("Invalid payload structure", HTTP_BAD_REQUEST)
  ELSE IF Len(payload.items) >= MAX_SCENES
  THEN errorResponse("Maximum 50 scenes allowed", HTTP_BAD_REQUEST)
  ELSE NoResponse

validateBodyMutNoCount(body) ==
  LET payload == JSONparse(body) IN
  IF Length(body) > MAX_BODY_SIZE
  THEN errorResponse("Payload too large. Maximum 50KB allowed.",
                     HTTP_PAYLOAD_TOO_LARGE)
  ELSE IF payload.t = "throw"
  THEN errorResponse("Invalid JSON", HTTP_BAD_REQUEST)
  ELSE IF payload.t = "null"
  THEN internalErrorResponse
  ELSE IF ~(payload.t = "obj" /\ payload.sc = "arr")
  THEN errorResponse("Invalid payload structure", HTTP_BAD_REQUEST)
  ELSE NoResponse

validateBody(body) ==
  LET payload == JSONparse(body) IN
  IF Length(body) > MAX_BODY_SIZE
  THEN errorResponse("Payload too large. Maximum 50KB allowed.",
                     HTTP_PAYLOAD_TOO_LARGE)
  ELSE IF payload.t = "throw"
  THEN errorResponse("Invalid JSON", HTTP_BAD_REQUEST)
  ELSE IF payload.t = "null"
  THEN internalErrorResponse
  ELSE IF ~(payload.t = "obj" /\ payload.sc = "arr")
  THEN errorResponse("Invalid payload structure", HTTP_BAD_REQUEST)
  ELSE IF Len(payload.items) > MAX_SCENES
  THEN errorResponse("Maximum 50 scenes allowed", HTTP_BAD_REQUEST)
  ELSE NoResponse

\* --------------------------------------------------------------- actions
\* the request in slot r goes on as s
Continue(r, s) ==
  /\ slots' = [slots EXCEPT ![r] = s]
  /\ done' = Idle

\* the request in slot r, now s, is answered with resp; the invocation ends
Respond(r, s, resp) ==
  /\ slots' = [slots EXCEPT ![r] = Idle]
  /\ done' = [s EXCEPT !.pc = "done", !.resp = resp]

\* an arriving request takes the first free slot
SlotBefore(q, r) == q = "r1" /\ r = "r2"

\* handleRequest up to its first await (lines 182-215): routing, preflight,
\* https redirect, Authorization header; a Bearer token is sent to Spotify.
HandleRequest(r) ==
  /\ slots[r].pc = "idle"
  /\ arrivals < MaxArrivals
  /\ arrivals' = arrivals + 1
  /\ \A q \in Slots : slots[q].pc = "idle" => ~SlotBefore(q, r)
  /\ \E req \in RequestsOf(r) :
       LET method == req.method
           path == req.path
           url == req.url
           auth == req.auth
           s == [slots[r] EXCEPT !.method = method, !.path = path,
                                 !.url = url, !.auth = auth]
       IN IF ~isApiRoute(path)
          THEN Respond(r, s, Response(HTTP_OK, "none", NullStr, "asset",
                                      FALSE, FALSE))
          ELSE IF method = "OPTIONS"
          THEN Respond(r, s, Response(HTTP_OK, "none", NullStr, "", TRUE, FALSE))
          ELSE IF mustRedirect(url)
          THEN Respond(r, s, Response(HTTP_MOVED_PERMANENTLY, "none", NullStr,
                                      "redirect", FALSE, FALSE))
          ELSE IF path # "/api/scenes"
          THEN Respond(r, s, errorResponse("Not found", HTTP_NOT_FOUND))
          ELSE IF missingOrInvalidAuth(auth)
          THEN Respond(r, s, errorResponse(
                 "Missing or invalid Authorization header", HTTP_UNAUTHORIZED))
          ELSE Continue(r, [s EXCEPT !.pc = "auth", !.idp = s.idp + 1])
  /\ UNCHANGED <<kv, lastPut>>
  /\ UNCHANGED <<client, view>>

\* validateSpotifyToken returns (lines 74-93), then lines 217-231 and the
\* synchronous start of the method's handler: handleGetScenes issues the get
\* of the current key; handlePutScenes checks Content-Length and starts
\* reading the body.
ValidateToken(r) ==
  /\ slots[r].pc = "auth"
  /\ \E outcome \in OutcomesOf(r, slots[r].method, slots[r].auth.token) :
       LET userId == validateSpotifyToken(slots[r].auth.token, outcome)
           s == [slots[r] EXCEPT !.userId = userId, !.outcome = outcome]
       IN IF userId = NoUser
          THEN Respond(r, s, errorResponse("Invalid or expired token",
                                           HTTP_UNAUTHORIZED))
          ELSE IF s.method = "GET"
          THEN Continue(r, [s EXCEPT !.pc = "getCur",
                 !.ops = Append(s.ops, [op |-> "get", key |-> buildKVKey(userId)])])
          ELSE IF s.method = "PUT"
          THEN \E cl \in ContentLengthsOf(r, userId) :
                 IF declaredTooLarge(cl)
                 THEN Respond(r, [s EXCEPT !.cl = cl], errorResponse(
                        "Payload too large. Maximum 50KB allowed.",
                        HTTP_PAYLOAD_TOO_LARGE))
                 ELSE Continue(r, [s EXCEPT !.pc = "readBody", !.cl = cl])
          ELSE Respond(r, s, methodNotAllowed)
  /\ UNCHANGED <<kv, arrivals, lastPut>>
  /\ UNCHANGED <<client, view>>

\* the get of the current key returns (lines 107-115); a falsy value
\* issues the get of the legacy key
GetCurrent(r) ==
  /\ slots[r].pc = "getCur"
  /\ LET userId == slots[r].userId
         stored == kv[buildKVKey(userId)]
         s == [slots[r] EXCEPT !.cur = stored, !.seen = lastPut[userId]]
     IN IF Falsy(stored)
        THEN Continue(r, [s EXCEPT !.pc = "getLeg",
               !.ops = Append(s.ops,
                         [op |-> "get", key |-> buildLegacyKVKey(userId)])])
        ELSE Respond(r, [s EXCEPT !.stored = stored],
                     decodeStored(stored, userId))
  /\ UNCHANGED <<kv, arrivals, lastPut>>
  /\ UNCHANGED <<client, view>>

GetLegacyMutWriteBack(r) ==
  /\ slots[r].pc = "getLeg"
  /\ LET userId == slots[r].userId
         stored == kv[buildLegacyKVKey(userId)]
         s == [slots[r] EXCEPT !.leg = stored, !.stored = stored]
     IN /\ Respond(r, s, IF Falsy(stored) THEN payloadResponse(EmptyPayload)
                         ELSE decodeStored(stored, userId))
        /\ kv' = [kv EXCEPT ![buildKVKey(userId)] = stored]
  /\ UNCHANGED <<arrivals, lastPut>>
  /\ UNCHANGED <<client, view>>

\* the get of the legacy key returns (lines 113-132)
GetLegacy(r) ==
  /\ slots[r].pc = "getLeg"
  /\ LET userId == slots[r].userId
         stored == kv[buildLegacyKVKey(userId)]
         s == [slots[r] EXCEPT !.leg = stored, !.stored = stored]
     IN Respond(r, s, IF Falsy(stored) THEN payloadResponse(EmptyPayload)
                      ELSE decodeStored(stored, userId))
  /\ UNCHANGED <<kv, arrivals, lastPut>>
  /\ UNCHANGED <<client, view>>

\* request.text() returns (lines 142-168): size, JSON and shape checks
ReadBody(r) ==
  /\ slots[r].pc = "readBody"
  /\ \/ /\ r = "r1"
        /\ Respond(r, slots[r],
                   errorResponse("Failed to read request body", HTTP_BAD_REQUEST))
     \/ \E body \in BodiesFor(r, slots[r].userId, slots[r].cl) :
          LET userId == slots[r].userId
              payload == JSONparse(body)
              rejected == validateBody(body)
              s == [slots[r] EXCEPT !.body = body]
          IN IF rejected # NoResponse
             THEN Respond(r, s, rejected)
             ELSE Continue(r, [s EXCEPT !.pc = "putKV", !.payload = payload])
  /\ UNCHANGED <<kv, arrivals, lastPut>>
  /\ UNCHANGED <<client, view>>

\* crypto.getRandomValues (crypto.ts line 40): the nonce of an encryption is
\* any value.  Nonces are named in the order of their first appearance in
\* the store: a draw is one of the values named so far or the next name.
MaxOf(S) == CHOOSE x \in S : \A y \in S : y <= x
Nonces ==
  LET used == MaxOf({kv[k].iv : k \in KVKeys})
  IN 1..(IF used < MaxNonce THEN used + 1 ELSE MaxNonce)

\* the put of slot r for userId has landed: r is answered, and a PUT of the
\* same identity that is still in flight has been overtaken by r's payload
Landed(r, userId, s, resp) ==
  /\ slots' = [q \in Slots |->
       IF q = r THEN Idle
       ELSE IF slots[q].method = "PUT" /\ slots[q].userId = userId
       THEN [slots[q] EXCEPT !.over = s.payload]
       ELSE slots[q]]
  /\ done' = [s EXCEPT !.pc = "done", !.resp = resp]

PutKVMutDropLegacy(r) ==
  /\ slots[r].pc = "putKV"
  /\ \E iv \in Nonces :
       LET userId == slots[r].userId
           encrypted == encrypt(JSONstringify(slots[r].payload), userId, iv)
           s == [slots[r] EXCEPT
                   !.blob = encrypted,
                   !.ops = Append(@, [op |-> "put", key |-> buildKVKey(userId)])]
       IN /\ kv' = [kv EXCEPT ![buildKVKey(userId)] = encrypted,
                              ![buildLegacyKVKey(userId)] = NullStr]
          /\ lastPut' = [lastPut EXCEPT ![userId] = s.payload]
          /\ Landed(r, userId, s, okResponse)
  /\ UNCHANGED arrivals
  /\ UNCHANGED <<client, view>>

PutKVMutMerge(r) ==
  /\ slots[r].pc = "putKV"
  /\ \E iv \in Nonces :
       LET userId == slots[r].userId
           merged == [slots[r].payload EXCEPT
                        !.items = slots[r].over.items \o @]
           encrypted == encrypt(JSONstringify(merged), userId, iv)
           s == [slots[r] EXCEPT
                   !.blob = encrypted,
                   !.ops = Append(@, [op |-> "put", key |-> buildKVKey(userId)])]
       IN /\ kv' = [kv EXCEPT ![buildKVKey(userId)] = encrypted]
          /\ lastPut' = [lastPut EXCEPT ![userId] = s.payload]
          /\ Landed(r, userId, s, okResponse)
  /\ UNCHANGED arrivals
  /\ UNCHANGED <<client, view>>

\* the payload is serialised and encrypted under a fresh IV, the put lands
\* and resolves (lines 170-175)
PutKV(r) ==
  /\ slots[r].pc = "putKV"
  /\ \E iv \in Nonces :
       LET userId == slots[r].userId
           encrypted == encrypt(JSONstringify(slots[r].payload), userId, iv)
           s == [slots[r] EXCEPT
                   !.blob = encrypted,
                   !.ops = Append(@, [op |-> "put", key |-> buildKVKey(userId)])]
       IN /\ kv' = [kv EXCEPT ![buildKVKey(userId)] = encrypted]
          /\ lastPut' = [lastPut EXCEPT ![userId] = s.payload]
          /\ Landed(r, userId, s, okResponse)
  /\ UNCHANGED arrivals
  /\ UNCHANGED <<client, view>>

\* ------------------------------------------------------- backend failures
\* A get or a put of the store rejects.  A rejected put has stored nothing.

\* the get of line 107 throws: nothing in handleGetScenes catches it, the
\* catch of fetch (lines 251-254) answers
GetCurrentFails(r) ==
  /\ slots[r].pc = "getCur"
  /\ Respond(r, [slots[r] EXCEPT !.kvError = TRUE], internalErrorResponse)
  /\ UNCHANGED <<kv, arrivals, lastPut>>
  /\ UNCHANGED <<client, view>>

\* the get of line 113 throws
GetLegacyFails(r) ==
  /\ slots[r].pc = "getLeg"
  /\ Respond(r, [slots[r] EXCEPT !.kvError = TRUE], internalErrorResponse)
  /\ UNCHANGED <<kv, arrivals, lastPut>>
  /\ UNCHANGED <<client, view>>

PutKVFailsMutRetry(r) ==
  /\ slots[r].pc = "putKV"
  /\ LET userId == slots[r].userId
         put == [op |-> "put", key |-> buildKVKey(userId)]
     IN Respond(r, [slots[r] EXCEPT !.kvError = TRUE,
                                    !.ops = Append(Append(@, put), put)],
                errorResponse("Failed to save scenes", HTTP_INTERNAL_ERROR))
  /\ UNCHANGED <<kv, arrivals, lastPut>>
  /\ UNCHANGED <<client, view>>

PutKVFailsMutWritten(r) ==
  /\ slots[r].pc = "putKV"
  /\ LET userId == slots[r].userId
         put == [op |-> "put", key |-> buildKVKey(userId)]
     IN /\ Respond(r, [slots[r] EXCEPT !.kvError = TRUE, !.ops = Append(@, put)],
                   errorResponse("Failed to save scenes", HTTP_INTERNAL_ERROR))
        /\ kv' = [kv EXCEPT ![buildKVKey(userId)] =
                    encrypt(JSONstringify(slots[r].payload), userId, 1)]
  /\ UNCHANGED <<arrivals, lastPut>>
  /\ UNCHANGED <<client, view>>

\* the put of line 173 throws: the catch of lines 176-179 answers
PutKVFails(r) ==
  /\ slots[r].pc = "putKV"
  /\ LET userId == slots[r].userId
         put == [op |-> "put", key |-> buildKVKey(userId)]
     IN Respond(r, [slots[r] EXCEPT !.kvError = TRUE, !.ops = Append(@, put)],
                errorResponse("Failed to save scenes", HTTP_INTERNAL_ERROR))
  /\ UNCHANGED <<kv, arrivals, lastPut>>
  /\ UNCHANGED <<client, view>>

Next ==
  \E r \in Slots :
    \/ HandleRequest(r)
    \/ ValidateToken(r)
    \/ GetCurrent(r)
    \/ GetLegacy(r)
    \/ ReadBody(r)
    \/ PutKV(r)
    \/ GetCurrentFails(r)
    \/ GetLegacyFails(r)
    \/ PutKVFails(r)

Spec == Init /\ [][Next]_vars

\* the same worker over a backend that holds nothing at the start
EmptyStore == [k \in KVKeys |-> NullStr]
InitEmpty ==
  /\ kv = EmptyStore
  /\ slots = [r \in Slots |-> Idle]
  /\ arrivals = 0
  /\ lastPut = [u \in Users |-> NoDoc]
  /\ done = Idle
  /\ client = ClientIdle
  /\ view = ViewIdle
EmptySpec == InitEmpty /\ [][Next]_vars

TypeOK ==
  /\ arrivals \in 0..MaxArrivals
  /\ \A r \in Slots : slots[r].pc \in
       {"idle", "auth", "getCur", "getLeg", "readBody", "putKV"}
  /\ done.pc \in {"idle", "done"}

\* ================================================================ claims
CurrentKeyOf(u) == <<"scenes:", Sha256Hex32(u)>>
LegacyKeyOf(u) == <<"scenes:", u>>
AllRecords == {slots[r] : r \in Slots} \cup {done}

\* the request passed routing, preflight and the https redirect and came to
\* the /api/scenes branch of handleRequest
ReachedRoute(d) ==
  /\ d.pc = "done"
  /\ d.path = "/api/scenes"
  /\ d.method # "OPTIONS"
  /\ ~(d.url.protocol = "http:" /\ d.url.hostname # "localhost")

\* an authenticated GET /api/scenes that handleGetScenes has answered (its
\* reads of the store returned)
GetAnswered(d) ==
  ReachedRoute(d) /\ d.method = "GET" /\ d.userId # NoUser /\ ~d.kvError

IsEmptyResult(resp) ==
  /\ resp.status = 200
  /\ resp.kind = "payload"
  /\ JSONparse(resp.text) = EmptyPayload

\* a legacy record: JSON text of a ScenesPayload, beginning with a brace
IsLegacyRecord(s) ==
  /\ ~s.enc /\ s.k = "json" /\ s.lead = 0
  /\ s.doc.t = "obj" /\ s.doc.sc = "arr"

\* C1: a GET by an identity that follows a completed save of that identity
\* (no later save of that identity before the read) returns a payload equal
\* to the payload the PUT accepted.
C1_RoundTrip ==
  (GetAnswered(done) /\ done.seen # NoDoc) =>
     /\ done.resp.status = 200
     /\ done.resp.kind = "payload"
     /\ JSONparse(done.resp.text) = done.seen

\* the same, for payloads whose numbers are all finite: the round trip is
\* exact whenever JSON.stringify can write the payload back
RoundTripOfFinitePayloads ==
  (/\ GetAnswered(done) /\ done.seen # NoDoc
   /\ \A i \in 1..Len(done.seen.items) : done.seen.items[i].volume # "Infinity") =>
     /\ done.resp.status = 200
     /\ done.resp.kind = "payload"
     /\ JSONparse(done.resp.text) = done.seen

\* C2: every key a request reads or writes is the current or the legacy key
\* of the identity the provider returned for the request's token; a GET
\* that finds a record sealed by another identity answers as if there were
\* no record; the record under an identity's key changes only in a PUT of
\* that identity.
C2_KeysOwn ==
  \A x \in AllRecords : \A i \in 1..Len(x.ops) :
     /\ x.userId = TokenOwner(x.auth.token)
     /\ x.ops[i].key \in {CurrentKeyOf(x.userId), LegacyKeyOf(x.userId)}
C2_NoForeignRead ==
  (GetAnswered(done) /\ done.stored.enc
     /\ done.stored.key # <<"sha256", done.userId>>) => IsEmptyResult(done.resp)
C2_PutOwn ==
  \A b \in Users :
     kv'[CurrentKeyOf(b)] # kv[CurrentKeyOf(b)] =>
        /\ done'.method = "PUT"
        /\ done'.userId = b
        /\ TokenOwner(done'.auth.token) = b
C2_Isolation == [](C2_KeysOwn /\ C2_NoForeignRead) /\ [][C2_PutOwn]_vars
C2_Witness ==
  /\ GetAnswered(done) /\ done.userId = "u1" /\ done.resp.status = 200
  /\ lastPut["u2"] # NoDoc
  /\ kv[CurrentKeyOf("u2")].enc

\* C3: for a request that came to the /api/scenes branch, a backend get or
\* put is issued only after the provider call of that request returned an
\* identifier; a request without a resolved identity is answered 401 and
\* issues no get or put.
C3_AuthPrecedesStorage ==
  /\ \A x \in AllRecords :
        x.ops # <<>> =>
          /\ x.idp = 1 /\ x.outcome = "profile"
          /\ x.userId # NoUser /\ x.userId = TokenOwner(x.auth.token)
  /\ (ReachedRoute(done) /\ (done.userId = NoUser \/ done.outcome # "profile")) =>
        (done.resp.status = 401 /\ done.ops = <<>>)
C3_Witness ==
  /\ ReachedRoute(done) /\ done.idp = 1 /\ done.outcome = "network"
  /\ done.resp.status = 401 /\ done.auth.token = "t_u1"

\* C4: a GET or PUT that came to the /api/scenes branch without an
\* Authorization header, or with one that does not start with "Bearer ", is
\* answered 401 and reaches neither the provider nor the backend.
C4_NoBearerNoAccess ==
  /\ (ReachedRoute(done) /\ done.method \in {"GET", "PUT"}
        /\ done.auth.scheme # "Bearer ") =>
       /\ done.resp.status = 401
       /\ done.idp = 0 /\ done.outcome = "none" /\ done.ops = <<>>
  /\ \A r \in Slots :
       slots[r].pc # "idle" => slots[r].auth.scheme = "Bearer "
C4_Witness ==
  /\ ReachedRoute(done) /\ done.method = "PUT" /\ done.auth.scheme = "Basic "
  /\ done.resp.status = 401

\* C5: a GET that finds nothing under the current key of its identity while
\* a legacy record is stored under scenes:{raw identity} answers 200 with
\* the parsed content of the legacy record.
C5_LegacyFallback ==
  (GetAnswered(done) /\ done.cur.k = "null"
     /\ IsLegacyRecord(kv[LegacyKeyOf(done.userId)])) =>
       /\ done.resp.status = 200
       /\ done.resp.kind = "payload"
       /\ JSONparse(done.resp.text) = JSONparse(kv[LegacyKeyOf(done.userId)])
C5_Witness ==
  /\ GetAnswered(done) /\ done.cur.k = "null" /\ done.userId = "u1"
  /\ IsLegacyRecord(kv[LegacyKeyOf("u1")])
  /\ JSONparse(done.resp.text) # EmptyPayload

\* what a well-formed record holds for identity u
WellFormed(s, u) ==
  \/ IsLegacyRecord(s)
  \/ s.enc /\ ~s.tampered /\ s.key = <<"sha256", u>> /\ IsLegacyRecord(Plain(s))

AnsweredFromCurrent(d) ==
  /\ d.stored = d.cur
  /\ \A i \in 1..Len(d.ops) : d.ops[i].key # LegacyKeyOf(d.userId)
  /\ WellFormed(d.cur, d.userId) =>
       /\ d.resp.status = 200 /\ d.resp.kind = "payload"
       /\ JSONparse(d.resp.text) = JSONparse(Plain(d.cur))

\* C6 as stated: whenever entries exist under both keys of the identity,
\* the GET answers from the current entry and does not read the legacy one.
C6_CurrentWinsAnyEntry ==
  (GetAnswered(done) /\ done.cur.k # "null"
     /\ kv[LegacyKeyOf(done.userId)].k # "null") => AnsweredFromCurrent(done)

\* C6 amended: whenever a non-empty entry exists under the current key and
\* an entry under the legacy key, the GET answers from the current entry
\* and does not read the legacy one.
C6_CurrentWins ==
  (GetAnswered(done) /\ done.cur.k \notin {"null", "empty"}
     /\ kv[LegacyKeyOf(done.userId)].k # "null") => AnsweredFromCurrent(done)
C6_Witness ==
  /\ GetAnswered(done) /\ done.cur.enc /\ WellFormed(done.cur, done.userId)
  /\ IsLegacyRecord(kv[LegacyKeyOf(done.userId)])
  /\ JSONparse(done.resp.text) # JSONparse(kv[LegacyKeyOf(done.userId)])

\* C7: a PUT answered 200 changes the store at exactly one key, the current
\* key scenes:{hash} of its identity, to the sealed record it built; no step
\* ever changes a legacy key.  Hence a GET after a completed save of its
\* identity is answered from the record that save wrote (the payload as the
\* save serialised it) and not from the legacy record.
C7_PutFrame ==
  /\ \A u \in Users : kv'[LegacyKeyOf(u)] = kv[LegacyKeyOf(u)]
  /\ (ReachedRoute(done') /\ done'.method = "PUT" /\ done'.resp.status = 200) =>
        /\ kv' = [kv EXCEPT ![CurrentKeyOf(done'.userId)] = done'.blob]
        /\ done'.blob.enc
        /\ done'.ops = <<[op |-> "put", key |-> CurrentKeyOf(done'.userId)]>>
C7_ServedFromSaved ==
  (GetAnswered(done) /\ done.seen # NoDoc) =>
     /\ done.stored = done.cur
     /\ done.cur.enc /\ done.cur.key = <<"sha256", done.userId>>
     /\ Plain(done.cur) = JSONstringify(done.seen)
     /\ done.resp.status = 200 /\ done.resp.kind = "payload"
     /\ JSONparse(done.resp.text) = JSONparse(Plain(done.cur))
     /\ done.ops = <<[op |-> "get", key |-> CurrentKeyOf(done.userId)]>>
C7_SingleKeyWrite == []C7_ServedFromSaved /\ [][C7_PutFrame]_vars
C7_Witness ==
  /\ GetAnswered(done) /\ done.userId = "u2" /\ done.seen # NoDoc
  /\ IsLegacyRecord(kv[LegacyKeyOf("u2")])
  /\ JSONparse(done.resp.text) # JSONparse(kv[LegacyKeyOf("u2")])

\* C8: a GET issues no backend put, and no step of a GET changes the store,
\* on any path (current hit, legacy hit, absent, corrupted).
C8_GetIssuesNoPut ==
  \A x \in AllRecords :
     x.method = "GET" => \A i \in 1..Len(x.ops) : x.ops[i].op = "get"
C8_GetStepFrame ==
  (\/ done'.pc = "done" /\ done'.method = "GET"
   \/ \E r \in Slots : slots'[r] # slots[r] /\ slots'[r].method = "GET")
     => kv' = kv
C8_GetReadOnly == []C8_GetIssuesNoPut /\ [][C8_GetStepFrame]_vars
C8_Witness ==
  /\ GetAnswered(done) /\ Len(done.ops) = 2 /\ IsLegacyRecord(done.leg)
  /\ done.cur.k = "empty"

\* C9: a GET that finds no value under the current key and none under the
\* legacy key of its identity answers 200 {scenes: []}, also when another
\* identity has saved.
C9_AbsenceEmpty ==
  (GetAnswered(done) /\ done.cur.k = "null"
     /\ kv[LegacyKeyOf(done.userId)].k = "null") => IsEmptyResult(done.resp)
C9_Witness ==
  /\ GetAnswered(done) /\ done.cur.k = "null" /\ done.userId = "u1"
  /\ kv[LegacyKeyOf("u1")].k = "null"
  /\ lastPut["u2"] # NoDoc /\ lastPut["u2"] # EmptyPayload
  /\ IsEmptyResult(done.resp)

\* the value does not decrypt under the identity's key (wrong key, tampered,
\* not a sealed blob at all), or its content is not JSON
Corrupted(s, u) ==
  \/ s.enc /\ (s.tampered \/ s.key # <<"sha256", u>>)
  \/ s.enc /\ s.k # "json"
  \/ ~s.enc /\ s.k \in {"junk", "bracejunk"}

\* C10: a GET whose stored value is corrupted answers 200 {scenes: []}.
C10_FailSoft ==
  (GetAnswered(done) /\ done.stored.k \notin {"null", "empty"}
     /\ Corrupted(done.stored, done.userId)) => IsEmptyResult(done.resp)
C10_Witness ==
  /\ GetAnswered(done) /\ done.stored.enc /\ ~done.stored.tampered
  /\ done.stored.key # <<"sha256", done.userId>>
  /\ done.stored.doc.items # <<>>
  /\ IsEmptyResult(done.resp)

\* an authenticated PUT /api/scenes that handlePutScenes has taken up
PutHandled(d) == ReachedRoute(d) /\ d.method = "PUT" /\ d.userId # NoUser

\* the PUT has read its body
BodyRead(d) == PutHandled(d) /\ d.body.k # "null"

\* C11: a GET whose backend get throws is answered with the empty result
\* 200 {scenes: []}, not with an error status.
C11_ReadFailSoft ==
  (ReachedRoute(done) /\ done.method = "GET" /\ done.kvError) =>
     IsEmptyResult(done.resp)

\* C12: an otherwise valid PUT whose backend put throws is answered 500, and
\* exactly one put was attempted for it.
C12_WriteFailLoud ==
  (PutHandled(done) /\ done.kvError) =>
     /\ done.resp.status = 500 /\ done.resp.kind = "error"
     /\ done.ops = <<[op |-> "put", key |-> CurrentKeyOf(done.userId)]>>
C12_Witness ==
  /\ PutHandled(done) /\ done.kvError /\ done.resp.status = 500
  /\ done.payload.items # <<>>

\* C13: when PUTs of one identity overlap, each whose put lands is answered
\* 200 {ok: true}, and the record stored afterwards is exactly the payload
\* of the request whose put landed last, never a merge.
C13_StoredIsLastLanded ==
  \A u \in Users :
     lastPut[u] # NoDoc =>
        /\ kv[CurrentKeyOf(u)].enc /\ ~kv[CurrentKeyOf(u)].tampered
        /\ kv[CurrentKeyOf(u)].key = <<"sha256", u>>
        /\ Plain(kv[CurrentKeyOf(u)]) = JSONstringify(lastPut[u])
C13_PutLands ==
  (PutHandled(done') /\ done'.ops # <<>> /\ ~done'.kvError) =>
     /\ done'.resp.status = 200 /\ done'.resp.kind = "ok"
     /\ lastPut'[done'.userId] = done'.payload
     /\ Plain(kv'[CurrentKeyOf(done'.userId)]) = JSONstringify(done'.payload)
C13_LastWriteWins == []C13_StoredIsLastLanded /\ [][C13_PutLands]_vars
C13_Witness ==
  /\ PutHandled(done) /\ done.resp.status = 200
  /\ done.over # NoDoc /\ done.over # done.payload
  /\ Plain(kv[CurrentKeyOf(done.userId)]) = JSONstringify(done.payload)

\* a PUT whose body is within the size limit and holds an array-typed scenes
WellShaped(d) ==
  /\ BodyRead(d) /\ ~d.kvError
  /\ ByteLength(d.body) <= 51200
  /\ JSONparse(d.body).t = "obj" /\ JSONparse(d.body).sc = "arr"

\* C14: a PUT with more than 50 scenes is rejected with 400 and issues no
\* put; a PUT with exactly 50 scenes (within the size limit) is answered 200
\* and its payload is the stored record.
C14_ItemCount ==
  WellShaped(done) =>
     /\ Len(JSONparse(done.body).items) > 50 =>
          (done.resp.status = 400 /\ done.ops = <<>>)
     /\ Len(JSONparse(done.body).items) = 50 =>
          /\ done.resp.status = 200
          /\ kv[CurrentKeyOf(done.userId)] = done.blob
          /\ Plain(done.blob) = JSONstringify(JSONparse(done.body))
C14_Witness ==
  /\ WellShaped(done) /\ Len(JSONparse(done.body).items) = 50
  /\ done.resp.status = 200

\* C15: a PUT whose body is longer than 51200 bytes is rejected with 413
\* and issues no put, whatever Content-Length declares and whatever
\* characters the body holds.
C15_ActualSize ==
  (BodyRead(done) /\ ByteLength(done.body) > 51200) =>
     (done.resp.status = 413 /\ done.ops = <<>>)

\* what line 150 enforces: the limit on the UTF-16 code units of the body
CodeUnitLimit ==
  (BodyRead(done) /\ Length(done.body) > 51200) =>
     (done.resp.status = 413 /\ done.ops = <<>>)

\* C16: a PUT that declares a Content-Length above 51200 is rejected with
\* 413 before its body is read, and issues no put; a declared and actual
\* size of exactly 51200 is not rejected for size.
C16_DeclaredSize ==
  /\ (PutHandled(done) /\ done.cl > 51200) =>
        /\ done.resp.status = 413
        /\ done.body.k = "null" /\ done.ops = <<>>
  /\ \A r \in Slots : slots[r].cl <= 51200
  /\ (/\ PutHandled(done) /\ done.cl = 51200
      /\ BodyRead(done) => ByteLength(done.body) = 51200) =>
        done.resp.status # 413
C16_Witness ==
  /\ PutHandled(done) /\ done.cl = 51201 /\ done.resp.status = 413

\* C17: an authenticated PUT within the size limit whose body is not JSON,
\* or is JSON of any kind without an array-typed scenes member, is rejected
\* with 400 and issues no put.
C17_ShapeValidation ==
  (/\ BodyRead(done) /\ ByteLength(done.body) <= 51200
   /\ ~(JSONparse(done.body).t = "obj" /\ JSONparse(done.body).sc = "arr")) =>
     (done.resp.status = 400 /\ done.ops = <<>>)

\* the same for every body but the JSON text null
ShapeValidationNonNull ==
  (/\ BodyRead(done) /\ ByteLength(done.body) <= 51200
   /\ JSONparse(done.body).t # "null"
   /\ ~(JSONparse(done.body).t = "obj" /\ JSONparse(done.body).sc = "arr")) =>
     (done.resp.status = 400 /\ done.ops = <<>>)

\* C18: only a PUT answered 200 changes the store: a step that changes any
\* stored record completes a PUT with status 200, so no step of a request
\* answered otherwise changes a record.
C18_WriteImpliesOk ==
  kv' # kv =>
    /\ ReachedRoute(done') /\ done'.method = "PUT"
    /\ done'.resp.status = 200
C18_OnlySuccessWrites == [][C18_WriteImpliesOk]_vars
C18_Witness ==
  /\ PutHandled(done) /\ done.resp.status = 500 /\ done.kvError
  /\ kv[CurrentKeyOf(done.userId)].k # "null"
  /\ Plain(kv[CurrentKeyOf(done.userId)]) # JSONstringify(done.payload)

\* C19: every value written to the store is one that isEncrypted classifies
\* as encrypted (it does not start with a brace), and it is written under
\* "scenes:" followed by the 32 hex characters of the writer's identity
\* hash, never under the raw identity.
C19_WrittenValue ==
  \A k \in KVKeys :
     kv'[k] # kv[k] =>
        /\ isEncrypted(kv'[k]) /\ ~StartsWithBrace(kv'[k])
        /\ kv'[k].enc /\ kv'[k].key = <<"sha256", done'.userId>>
        /\ k = <<"scenes:", Sha256Hex32(done'.userId)>>
        /\ k # LegacyKeyOf(done'.userId)
C19_PutKeys ==
  /\ HashKeyChars = 32
  /\ \A x \in AllRecords : \A i \in 1..Len(x.ops) :
        x.ops[i].op = "put" => x.ops[i].key = <<"scenes:", Sha256Hex32(x.userId)>>
C19_StoredFormat == []C19_PutKeys /\ [][C19_WrittenValue]_vars
C19_Witness ==
  /\ PutHandled(done) /\ done.resp.status = 200 /\ done.userId = "u1"
  /\ isEncrypted(kv[CurrentKeyOf("u1")])
  /\ kv[CurrentKeyOf("u1")] = done.blob
  /\ done.payload.items # <<>>

\* C20: a request that presents a Bearer header at the /api/scenes branch
\* causes exactly one call to the identity provider; a non-2xx answer, a
\* transport failure, and an answer that is not JSON or has no id each give
\* 401.
C20_IdentityResolution ==
  /\ \A x \in AllRecords : x.idp <= 1
  /\ \A r \in Slots : slots[r].pc # "idle" => slots[r].idp = 1
  /\ (ReachedRoute(done) /\ done.auth.scheme = "Bearer ") =>
        /\ done.idp = 1
        /\ done.outcome \in {"rejected", "network", "notjson", "noid"} =>
             (done.resp.status = 401 /\ done.userId = NoUser /\ done.ops = <<>>)
C20_Witness ==
  /\ ReachedRoute(done) /\ done.auth.scheme = "Bearer " /\ done.idp = 1
  /\ done.outcome = "noid" /\ done.resp.status = 401

\* a request that the worker has answered
Answered(d) == d.pc = "done"
OverHttp(d) == d.url.protocol = "http:" /\ d.url.hostname # "localhost"
UnderApi(d) == d.path \in {"/api/scenes", "/api/other"}

\* C21: every response the worker produces for an /api/ path, preflight and
\* error responses included, carries the three CORS headers and
\* Content-Type: application/json.
C21_AllResponsesCors ==
  (Answered(done) /\ UnderApi(done)) => (done.resp.cors /\ done.resp.ctype)

\* what jsonResponse guarantees: the responses with a JSON body carry both
JsonResponsesCors ==
  (Answered(done) /\ done.resp.kind \in {"payload", "ok", "error"}) =>
     (done.resp.cors /\ done.resp.ctype)

C23_OtherPaths404 ==
  (Answered(done) /\ done.method # "OPTIONS" /\ done.path # "/api/scenes") =>
     (done.resp.status = 404 /\ done.idp = 0 /\ done.ops = <<>>)

\* C23 amended: a non-OPTIONS request to a path under /api/ other than
\* /api/scenes is answered 404 (301 when it arrives over plain http); a
\* request to a path outside /api/ is handed to the static assets; none
\* reaches the provider or the backend.
C23_PathPolicy ==
  (Answered(done) /\ done.method # "OPTIONS" /\ done.path # "/api/scenes") =>
     /\ done.idp = 0 /\ done.outcome = "none" /\ done.ops = <<>>
     /\ UnderApi(done) =>
          IF OverHttp(done) THEN done.resp.status = 301
          ELSE done.resp.status = 404 /\ done.resp.kind = "error"
     /\ ~UnderApi(done) => done.resp.msg = "asset"
C23_Witness ==
  /\ Answered(done) /\ done.method = "DELETE" /\ done.path = "/api/other"
  /\ done.resp.status = 404

\* C24: an OPTIONS request to any path is answered 200 with the CORS
\* headers and an empty body, without a provider call or a backend access.
C24_Preflight ==
  (Answered(done) /\ done.method = "OPTIONS") =>
     /\ done.resp.status = 200 /\ done.resp.cors
     /\ done.resp.kind = "none" /\ done.resp.msg = ""
     /\ done.idp = 0 /\ done.ops = <<>>

\* what lines 186-197 do: the same for every path under /api/
PreflightUnderApi ==
  (Answered(done) /\ done.method = "OPTIONS" /\ UnderApi(done)) =>
     /\ done.resp.status = 200 /\ done.resp.cors
     /\ done.resp.kind = "none" /\ done.resp.msg = ""
     /\ done.idp = 0 /\ done.ops = <<>>

\* an exception escaped handleRequest: a get of the store threw, or
\* payload.scenes was read from null
Escaped(d) ==
  \/ ReachedRoute(d) /\ d.method = "GET" /\ d.kvError
  \/ BodyRead(d) /\ Length(d.body) <= 51200 /\ JSONparse(d.body).t = "null"

\* C25: an exception that escapes request handling is answered 500 with the
\* fixed generic message, never with the text of the exception.
C25_GenericError ==
  Escaped(done) =>
     /\ done.resp.status = 500 /\ done.resp.kind = "error"
     /\ done.resp.msg = "Internal server error"
     /\ done.resp.cors /\ done.resp.ctype
C25_Witness ==
  /\ BodyRead(done) /\ JSONparse(done.body).t = "null"
  /\ done.resp.status = 500 /\ done.resp.msg = "Internal server error"

\* C26 as stated: a GET that reads a blob in which any byte was changed, or
\* a blob sealed under another identity, fails to decrypt it.
C26_AnyByteChangeFails ==
  (/\ GetAnswered(done) /\ done.stored.enc
   /\ \/ done.stored.tampered
      \/ done.stored.slack # 0
      \/ done.stored.key # <<"sha256", done.userId>>) =>
     IsEmptyResult(done.resp)

\* C26 amended: a blob whose decoded bytes were changed, or that was sealed
\* under another identity, fails to decrypt; a blob changed only in the
\* unused bits of its last base64 character decrypts to the sealed
\* plaintext; a GET never returns another plaintext than the sealed one.
C26_TamperFailClosed ==
  (GetAnswered(done) /\ done.stored.enc) =>
     /\ (done.stored.tampered \/ done.stored.key # <<"sha256", done.userId>>)
          => IsEmptyResult(done.resp)
     /\ done.resp.status = 200 /\ done.resp.kind = "payload"
     /\ JSONparse(done.resp.text) \in
          {EmptyPayload, JSONparse(Plain(done.stored))}
C26_Witness ==
  /\ GetAnswered(done) /\ done.stored.enc /\ done.stored.tampered
  /\ done.stored.key = <<"sha256", done.userId>>
  /\ done.stored.doc.items # <<>>
  /\ IsEmptyResult(done.resp)

\* the first character of a string
FirstChar(v) ==
  CASE v.enc -> "base64"
    [] v.k \in {"empty", "null"} -> ""
    [] v.k = "bracejunk" -> "{"
    [] v.k = "junk" -> "x"
    [] v.lead > 0 -> " "
    [] v.doc.t = "obj" -> "{"
    [] OTHER -> "["

\* C28: isEncrypted is false exactly for the strings that start with a
\* brace and true for every other string, the empty string included; a GET
\* parses a stored value that starts with a brace as it is.
C28_FormatDiscrimination ==
  /\ isEncrypted(EmptyStr)
  /\ \A k \in KVKeys :
        kv[k].k # "null" => (isEncrypted(kv[k]) <=> FirstChar(kv[k]) # "{")
  /\ (GetAnswered(done) /\ done.stored.k # "null") =>
        /\ isEncrypted(done.stored) <=> FirstChar(done.stored) # "{"
        /\ IsLegacyRecord(done.stored) =>
             JSONparse(done.resp.text) = JSONparse(done.stored)
        /\ (FirstChar(done.stored) # "{" /\ ~done.stored.enc) =>
             IsEmptyResult(done.resp)
C28_Witness ==
  /\ GetAnswered(done) /\ done.stored.k = "junk" /\ ~done.stored.enc
  /\ isEncrypted(done.stored) /\ IsEmptyResult(done.resp)
  /\ \E k \in KVKeys : ~isEncrypted(kv[k])

C30_BoundedReads ==
  (ReachedRoute(done) /\ done.method = "GET" /\ done.resp.status = 200) =>
     /\ done.resp.kind = "payload"
     /\ JSONparse(done.resp.text).t = "obj"
     /\ JSONparse(done.resp.text).sc = "arr"
     /\ Len(JSONparse(done.resp.text).items) <= 50
C30_Witness ==
  /\ GetAnswered(done) /\ done.resp.status = 200
  /\ Len(JSONparse(done.resp.text).items) = 50

\* C31: when the value under an identity's current key is the empty string,
\* handleGetScenes reads the legacy key as well and answers with the legacy
\* record's content when there is one and with {scenes: []} otherwise.
C31_EmptyCountsAsAbsent ==
  (GetAnswered(done) /\ done.cur = EmptyStr) =>
     /\ done.ops = <<[op |-> "get", key |-> CurrentKeyOf(done.userId)],
                     [op |-> "get", key |-> LegacyKeyOf(done.userId)]>>
     /\ done.stored = done.leg
     /\ done.resp.status = 200 /\ done.resp.kind = "payload"
     /\ IsLegacyRecord(done.leg) =>
          JSONparse(done.resp.text) = JSONparse(done.leg)
     /\ done.leg = NullStr => IsEmptyResult(done.resp)
C31_Witness ==
  /\ GetAnswered(done) /\ done.cur = EmptyStr
  /\ IsLegacyRecord(done.leg) /\ done.leg.doc.items # <<>>
  /\ JSONparse(done.resp.text) = JSONparse(done.leg)

\* ================================================================ client
\* The web client: composables/useScenes.ts over services/api.ts, talking to
\* the worker's /api/scenes for one signed-in identity.  The worker's part
\* of a request is one step: handleGetScenes or handlePutScenes computed on
\* the store as the worker computes them.
ClientUser == "u1"
workerVars == <<slots, arrivals, lastPut, done>>

\* crypto.randomUUID(): the n-th id that is generated
generateId(n) == CASE n = 1 -> "n1" [] n = 2 -> "n2" [] n = 3 -> "n3"
                   [] n = 4 -> "n4" [] OTHER -> "n5"

\* scenes.value
Scenes(c) == c.heap[c.cur]

\* Array.prototype.findIndex on the id: the first match, 0 for -1
FindIndex(list, id) ==
  IF \E i \in 1..Len(list) : list[i].id = id
  THEN CHOOSE i \in 1..Len(list) :
         list[i].id = id /\ \A j \in 1..(i - 1) : list[j].id # id
  ELSE 0

\* scenes.value.filter((s) => s.id !== id)
FilterOut(list, id) == SelectSeq(list, LAMBDA sc : sc.id # id)

\* a call of apiSaveScenes or apiFetchScenes: pc is "token" (awaiting
\* getAccessToken), "sent" (awaiting fetch), "replied" (the awaited promise
\* has settled) or "finished"; ref is the array passed to saveScenes; sends
\* counts the requests the call has sent
Task(kind, ref) ==
  [kind |-> kind, pc |-> "token", ref |-> ref, body |-> NullStr,
   sends |-> 0, resp |-> NoResponse]
NetworkError == Response(0, "none", NullStr, "network", FALSE, FALSE)

ApiResult(success, error, needsReauth, hasData, data) ==
  [success |-> success, error |-> error, needsReauth |-> needsReauth,
   hasData |-> hasData, data |-> data]

\* response.ok
ResponseOk(resp) == resp.status >= 200 /\ resp.status <= 299

\* services/api.ts saveScenes, from the settled fetch on
saveScenes(t) ==
  IF t.sends = 0 THEN ApiResult(FALSE, "Not authenticated", TRUE, FALSE, <<>>)
  ELSE IF t.resp = NetworkError
  THEN ApiResult(FALSE, "Cannot connect to sync service", FALSE, FALSE, <<>>)
  ELSE IF t.resp.status = HTTP_UNAUTHORIZED
  THEN ApiResult(FALSE, "Session expired", TRUE, FALSE, <<>>)
  ELSE IF ~ResponseOk(t.resp)
  THEN ApiResult(FALSE, "Server error", FALSE, FALSE, <<>>)
  ELSE IF t.resp.kind # "ok"
  THEN ApiResult(FALSE, "Failed to save scenes", FALSE, FALSE, <<>>)
  ELSE ApiResult(TRUE, "null", FALSE, FALSE, <<>>)

\* services/api.ts fetchScenes, from the settled fetch on
fetchScenes(t) ==
  IF t.sends = 0 THEN ApiResult(FALSE, "Not authenticated", TRUE, FALSE, <<>>)
  ELSE IF t.resp = NetworkError
  THEN ApiResult(FALSE, "Cannot connect to sync service", FALSE, FALSE, <<>>)
  ELSE IF t.resp.status = HTTP_UNAUTHORIZED
  THEN ApiResult(FALSE, "Session expired", TRUE, FALSE, <<>>)
  ELSE IF ~ResponseOk(t.resp)
  THEN ApiResult(FALSE, "Server error", FALSE, FALSE, <<>>)
  ELSE LET data == JSONparse(t.resp.text)
       IN ApiResult(TRUE, "null", FALSE, data.sc = "arr", data.items)

\* syncToApi up to its await: syncError is reset, saveScenes is called with
\* the array scenes.value refers to
syncToApi(c) ==
  [c EXCEPT !.syncError = "null", !.tasks = Append(@, Task("save", c.cur))]

Call(op, id, before, after, ret, task) ==
  [op |-> op, id |-> id, before |-> before, after |-> after, ret |-> ret,
   task |-> task]

\* the call of an exported function has run up to its first await
Called(c, call) ==
  [c EXCEPT !.calls = @ + 1, !.last = call, !.log = Append(@, call.op)]

\* addScene (lines 58-66): push onto the array in place, then sync
addScene ==
  /\ client.calls < MaxCalls
  /\ LET newScene == [id |-> generateId(client.nextId), volume |-> "num40"]
         list == Append(Scenes(client), newScene)
         c == syncToApi([client EXCEPT !.heap[client.cur] = list,
                                       !.nextId = @ + 1])
     IN client' = Called(c, Call("addScene", newScene.id, Scenes(client),
                                 list, "scene", Len(c.tasks)))
  /\ UNCHANGED <<kv, workerVars, view>>

\* the ids a caller passes: those of scenes the client has seen, and one
\* that no scene has
SceneIds == {"s1", "s2", "unknown"} \cup {generateId(n) : n \in 1..MaxCalls}
IdsFor(list) == {list[i].id : i \in 1..Len(list)} \cup {"unknown"}
\* the calls of syncToApi and initializeScenes
TaskIds == 1..MaxCalls
Started(i) == i <= Len(client.tasks)

\* updateScene (lines 72-79)
updateSceneMutAppend(id, volume) ==
  /\ client.calls < MaxCalls
  /\ id \in IdsFor(Scenes(client))
  /\ LET c == syncToApi([client EXCEPT
                  !.heap[client.cur] = Append(@, [id |-> id, volume |-> volume])])
     IN client' = Called(c, Call("updateScene", id, Scenes(client), Scenes(c),
                                 "true", Len(c.tasks)))
  /\ UNCHANGED <<kv, workerVars, view>>
updateScene(id, volume) ==
  /\ client.calls < MaxCalls
  /\ id \in IdsFor(Scenes(client))
  /\ LET index == FindIndex(Scenes(client), id)
     IN IF index = 0
        THEN client' = Called(client, Call("updateScene", id, Scenes(client),
                                           Scenes(client), "false", 0))
        ELSE LET c == syncToApi([client EXCEPT
                        !.heap[client.cur][index].volume = volume])
             IN client' = Called(c, Call("updateScene", id, Scenes(client),
                                         Scenes(c), "true", Len(c.tasks)))
  /\ UNCHANGED <<kv, workerVars, view>>

\* deleteScene (lines 81-89): scenes.value becomes a new array
deleteScene(id) ==
  /\ client.calls < MaxCalls
  /\ id \in IdsFor(Scenes(client))
  /\ LET list == FilterOut(Scenes(client), id)
         c0 == [client EXCEPT !.heap = Append(@, list),
                              !.cur = Len(client.heap) + 1]
     IN IF Len(list) # Len(Scenes(client))
        THEN LET c == syncToApi(c0)
             IN client' = Called(c, Call("deleteScene", id, Scenes(client),
                                         list, "true", Len(c.tasks)))
        ELSE client' = Called(c0, Call("deleteScene", id, Scenes(client),
                                       list, "false", 0))
  /\ UNCHANGED <<kv, workerVars, view>>

\* initializeScenes up to its await (lines 31-35)
initializeScenes ==
  /\ client.calls < MaxCalls
  /\ LET c == [client EXCEPT !.isLoading = TRUE, !.syncError = "null",
                             !.tasks = Append(@, Task("load", client.cur))]
     IN client' = Called(c, Call("initializeScenes", "none", Scenes(client),
                                 Scenes(client), "none", Len(c.tasks)))
  /\ UNCHANGED <<kv, workerVars, view>>

\* clearScenes (lines 50-52), called by logout
clearScenesMutSave ==
  /\ client.calls < MaxCalls
  /\ LET c == syncToApi([client EXCEPT !.heap = Append(@, <<>>),
                                       !.cur = Len(client.heap) + 1])
     IN client' = Called(c, Call("clearScenes", "none", Scenes(client), <<>>,
                                 "none", 0))
  /\ UNCHANGED <<kv, workerVars, view>>
clearScenes ==
  /\ client.calls < MaxCalls
  /\ LET c == [client EXCEPT !.heap = Append(@, <<>>),
                             !.cur = Len(client.heap) + 1]
     IN client' = Called(c, Call("clearScenes", "none", Scenes(client), <<>>,
                                 "none", 0))
  /\ UNCHANGED <<kv, workerVars, view>>

\* getAccessToken settles (api.ts lines 393-410): without a token the call
\* returns (met by the first call of a behaviour); with one the body is
\* serialised from the array as it is now and the request is sent
getAccessToken(i) ==
  /\ Started(i)
  /\ client.tasks[i].pc = "token"
  /\ \/ /\ i = 1
        /\ client' = [client EXCEPT !.tasks[i].pc = "replied"]
     \/ client' = [client EXCEPT
          !.tasks[i].pc = "sent",
          !.tasks[i].sends = @ + 1,
          !.tasks[i].body =
             IF client.tasks[i].kind = "save"
             THEN JSONstringify(ScenesDoc(client.heap[client.tasks[i].ref]))
             ELSE NullStr]
  /\ UNCHANGED <<kv, workerVars, view>>

\* handleGetScenes (lines 104-133) on the store as it is
handleGetScenes(store, userId) ==
  LET cur == store[buildKVKey(userId)]
      leg == store[buildLegacyKVKey(userId)]
  IN IF ~Falsy(cur) THEN decodeStored(cur, userId)
     ELSE IF ~Falsy(leg) THEN decodeStored(leg, userId)
     ELSE payloadResponse(EmptyPayload)

\* the worker answers the PUT (handlePutScenes lines 135-175); the nonce is
\* one that no stored blob has, while the names last
workerPut(i) ==
  /\ Started(i)
  /\ client.tasks[i].pc = "sent" /\ client.tasks[i].kind = "save"
  /\ LET body == client.tasks[i].body
         rejected == validateBody(body)
     IN IF rejected # NoResponse
        THEN /\ client' = [client EXCEPT !.tasks[i].pc = "replied",
                                         !.tasks[i].resp = rejected]
             /\ kv' = kv
        ELSE /\ kv' = [kv EXCEPT ![buildKVKey(ClientUser)] =
                        encrypt(JSONstringify(JSONparse(body)), ClientUser,
                                MaxOf(Nonces))]
             /\ client' = [client EXCEPT !.tasks[i].pc = "replied",
                                         !.tasks[i].resp = okResponse]
  /\ UNCHANGED <<workerVars, view>>

\* the worker answers the GET
workerGet(i) ==
  /\ Started(i)
  /\ client.tasks[i].pc = "sent" /\ client.tasks[i].kind = "load"
  /\ client' = [client EXCEPT !.tasks[i].pc = "replied",
                  !.tasks[i].resp = handleGetScenes(kv, ClientUser)]
  /\ UNCHANGED <<kv, workerVars, view>>

\* the request fails: the worker answers 401 or 500, or fetch rejects.
\* The first call of a behaviour meets each failure, a later one the 401.
Failures(i, kind) ==
  IF i > 1 THEN {errorResponse("Invalid or expired token", HTTP_UNAUTHORIZED)}
  ELSE {errorResponse("Invalid or expired token", HTTP_UNAUTHORIZED),
        IF kind = "save"
        THEN errorResponse("Failed to save scenes", HTTP_INTERNAL_ERROR)
        ELSE internalErrorResponse,
        NetworkError}
requestFails(i) ==
  /\ Started(i)
  /\ client.tasks[i].pc = "sent"
  /\ \E resp \in Failures(i, client.tasks[i].kind) :
       client' = [client EXCEPT !.tasks[i].pc = "replied",
                                !.tasks[i].resp = resp]
  /\ UNCHANGED <<kv, workerVars, view>>

\* syncToApi after its await (lines 17-24)
saveSettlesMutSilent(i) ==
  /\ Started(i)
  /\ client.tasks[i].pc = "replied" /\ client.tasks[i].kind = "save"
  /\ client' = [client EXCEPT !.tasks[i].pc = "finished", !.tasks[i].body = NullStr]
  /\ UNCHANGED <<kv, workerVars, view>>
saveSettles(i) ==
  /\ Started(i)
  /\ client.tasks[i].pc = "replied" /\ client.tasks[i].kind = "save"
  /\ LET result == saveScenes(client.tasks[i])
     IN client' = [client EXCEPT
          !.tasks[i].pc = "finished", !.tasks[i].body = NullStr,
          !.syncError = IF ~result.success THEN result.error ELSE @]
  /\ UNCHANGED <<kv, workerVars, view>>

\* initializeScenes after its await (lines 37-44)
loadSettles(i) ==
  /\ Started(i)
  /\ client.tasks[i].pc = "replied" /\ client.tasks[i].kind = "load"
  /\ LET result == fetchScenes(client.tasks[i])
     IN IF result.success /\ result.hasData
        THEN client' = [client EXCEPT
               !.tasks[i].pc = "finished", !.tasks[i].body = NullStr,
               !.heap = Append(@, result.data),
               !.cur = Len(client.heap) + 1,
               !.isLoading = FALSE]
        ELSE client' = [client EXCEPT
               !.tasks[i].pc = "finished", !.tasks[i].body = NullStr,
               !.syncError = IF result.error = "null"
                             THEN "Failed to load scenes" ELSE result.error,
               !.isLoading = FALSE]
  /\ UNCHANGED <<kv, workerVars, view>>

\* what the store holds for the identity when the client starts
ClientStores ==
  {EmptyStore,
   [EmptyStore EXCEPT ![buildKVKey(ClientUser)] =
      Blob(ScenesDoc(<<ParseScene(S1), ParseScene(S2), ParseScene(S1)>>),
           ClientUser, 1)]}

\* the scenes a GET of the identity returns now
ServerList == JSONparse(handleGetScenes(kv, ClientUser).text).items

\* The client starts with the module's initial state, or with the state a
\* completed initializeScenes of an earlier mount has left: the list is the
\* identity's record.
ClientInit ==
  /\ kv \in ClientStores
  /\ slots = [r \in Slots |-> Idle]
  /\ arrivals = 0
  /\ lastPut = [u \in Users |-> NoDoc]
  /\ done = Idle
  /\ client \in {ClientIdle, [ClientIdle EXCEPT !.heap = <<ServerList>>]}
  /\ view = ViewIdle

ClientNext ==
  \/ addScene
  \/ \E id \in SceneIds : updateScene(id, "num70")
  \/ \E id \in SceneIds : deleteScene(id)
  \/ initializeScenes
  \/ clearScenes
  \/ \E i \in TaskIds :
       \/ getAccessToken(i)
       \/ workerPut(i)
       \/ workerGet(i)
       \/ requestFails(i)
       \/ saveSettles(i)
       \/ loadSettles(i)

ClientSpec == ClientInit /\ [][ClientNext]_vars

ClientTypeOK ==
  /\ client.calls \in 0..MaxCalls
  /\ client.cur \in 1..Len(client.heap)
  /\ \A i \in 1..Len(client.tasks) :
       /\ client.tasks[i].pc \in {"token", "sent", "replied", "finished"}
       /\ client.tasks[i].ref \in 1..Len(client.heap)

\* --------------------------------------------------------- client claims
\* the call of syncToApi / initializeScenes numbered i settles in this step
Settles(i, kind) ==
  /\ Started(i)
  /\ client.tasks[i].kind = kind
  /\ client.tasks[i].pc = "replied"
  /\ client'.tasks[i].pc = "finished"

\* the save was not accepted: no token, a rejected fetch, or a status other
\* than 200
SaveFailed(t) == t.sends = 0 \/ t.resp.status # 200
SaveDone(i) ==
  Started(i) /\ client.tasks[i].kind = "save" /\ client.tasks[i].pc = "finished"
NoLoads == \A j \in 1..Len(client.tasks) : client.tasks[j].kind = "save"

\* C32: when addScene, updateScene or deleteScene has changed the list and
\* its save fails, the failure leaves the list as it is and sets syncError;
\* while no other call has followed, the list is the changed list and
\* syncError is not null.
C32_FailureKeepsList ==
  \A i \in TaskIds :
    (Settles(i, "save") /\ SaveFailed(client.tasks[i])) =>
       /\ client'.syncError # "null"
       /\ client'.heap = client.heap /\ client'.cur = client.cur
C32_AfterFailure ==
  \A i \in TaskIds :
    (SaveDone(i) /\ SaveFailed(client.tasks[i]) /\ client.last.task = i) =>
       /\ client.syncError # "null"
       /\ NoLoads => Scenes(client) = client.last.after
C32_KeepsLocalState == []C32_AfterFailure /\ [][C32_FailureKeepsList]_vars
C32_Witness ==
  /\ SaveDone(1) /\ client.tasks[1].resp.status = 500
  /\ client.last.op = "addScene" /\ client.last.task = 1
  /\ client.syncError = "Server error"
  /\ Scenes(client) = client.last.after /\ Len(Scenes(client)) = 1

\* C33: a save that the API answered with 401 has refreshed the token and
\* sent the PUT a second time before it reports the failure.
C33_RetryOn401 ==
  \A i \in TaskIds :
    (SaveDone(i) /\ client.tasks[i].resp.status = 401) =>
       client.tasks[i].sends = 2

\* C34: when the client has made two changes, both PUTs were answered 200
\* and both saves have completed, the record at the server is the client's
\* list, and syncError is null only if it is.
C34_Convergence ==
  (/\ Len(client.tasks) = 2 /\ client.calls = 2
   /\ \A i \in 1..2 : SaveDone(i) /\ client.tasks[i].resp.status = 200) =>
     /\ ServerList = Scenes(client)
     /\ client.syncError = "null" => ServerList = Scenes(client)

\* C35: initializeScenes ends with isLoading false; after a successful
\* fetch the list is the fetched list and syncError is null; after a failed
\* fetch syncError is set and the list is empty.
C35_Settled ==
  \A i \in TaskIds :
    Settles(i, "load") =>
       /\ ~client'.isLoading
       /\ IF client.tasks[i].sends = 1 /\ client.tasks[i].resp.status = 200
          THEN /\ Scenes(client') = JSONparse(client.tasks[i].resp.text).items
               /\ client'.syncError = "null"
          ELSE /\ client'.syncError # "null"
               /\ Scenes(client') = <<>>
C35_LoadOutcome == [][C35_Settled]_vars

\* C36: clearScenes empties the local list, starts no save and leaves the
\* store as it is; an initializeScenes whose GET is answered 200 puts the
\* answered record's scenes in the list, which is the identity's record
\* while no save has been made.
C36_Clear ==
  (client'.calls = client.calls + 1 /\ client'.last.op = "clearScenes") =>
     /\ kv' = kv
     /\ client'.tasks = client.tasks
     /\ Scenes(client') = <<>>
C36_Restored ==
  (/\ client.last.op = "initializeScenes"
   /\ client.tasks[client.last.task].pc = "finished"
   /\ client.tasks[client.last.task].resp.status = 200
   /\ \A j \in 1..Len(client.tasks) : client.tasks[j].kind = "load") =>
     Scenes(client) = ServerList
C36_LogoutKeepsServerData == []C36_Restored /\ [][C36_Clear]_vars
C36_Witness ==
  /\ client.log = <<"clearScenes", "initializeScenes">>
  /\ client.tasks[1].pc = "finished" /\ client.tasks[1].resp.status = 200
  /\ client.last.before = <<>>
  /\ Len(Scenes(client)) = 3 /\ Scenes(client) = ServerList

\* C37: updateScene with an id that is not in the list returns false,
\* changes nothing and starts no save; with an id of the list it replaces
\* the fields of the first scene with that id, keeps its id and position
\* and every other scene, returns true and saves.  deleteScene removes
\* exactly the scenes with the id, returns true and saves when it removed
\* one, and returns false without a save otherwise.
C37_Returned ==
  LET c == client.last
      known == \E j \in 1..Len(c.before) : c.before[j].id = c.id
  IN /\ (c.op = "updateScene" /\ ~known) =>
          (c.ret = "false" /\ c.after = c.before /\ c.task = 0)
     /\ (c.op = "updateScene" /\ known) =>
          /\ c.ret = "true" /\ c.task = Len(client.tasks)
          /\ client.tasks[c.task].kind = "save"
          /\ Len(c.after) = Len(c.before)
          /\ \E k \in 1..Len(c.before) :
               /\ c.before[k].id = c.id
               /\ \A j \in 1..(k - 1) : c.before[j].id # c.id
               /\ c.after[k] = [id |-> c.id, volume |-> "num70"]
               /\ \A j \in 1..Len(c.before) : j # k => c.after[j] = c.before[j]
     /\ c.op = "deleteScene" =>
          /\ c.after = SelectSeq(c.before, LAMBDA sc : sc.id # c.id)
          /\ IF known
             THEN /\ c.ret = "true" /\ c.task = Len(client.tasks)
                  /\ client.tasks[c.task].kind = "save"
             ELSE c.ret = "false" /\ c.task = 0
C37_Called ==
  (client'.calls = client.calls + 1
     /\ client'.last.op \in {"updateScene", "deleteScene"}) =>
     /\ client'.last.before = Scenes(client)
     /\ client'.last.after = Scenes(client')
     /\ IF client'.last.ret = "false"
        THEN client'.tasks = client.tasks /\ Scenes(client') = Scenes(client)
        ELSE /\ Len(client'.tasks) = Len(client.tasks) + 1
             /\ client'.tasks[Len(client'.tasks)].kind = "save"
             /\ client'.tasks[Len(client'.tasks)].ref = client'.cur
clientVars == <<kv, slots, arrivals, lastPut, done, client>>
ViewScenes == {"a", "b"}
Devices == {"d1"}
PlayIds == 1..MaxPlays
PLAYING_FEEDBACK_MS == 2000

PlayCall(fn, scene, origin) ==
  [fn |-> fn, scene |-> scene, origin |-> origin, pc |-> "start"]

\* playingSceneId.value = null, by the call numbered by
ClearPlaying(v, by) ==
  [v EXCEPT !.playingSceneId = "null", !.owner = 0,
            !.clear = IF v.playingSceneId # "null"
                      THEN [by |-> by, of |-> v.owner] ELSE @]

\* pendingScene.value = null
ClearPending(v) == [v EXCEPT !.pendingScene = "null", !.pendingOwner = 0]

\* playScene up to its await (lines 65-69).  The scene cards lie under the
\* picker's overlay: a scene is chosen while the picker is closed.
playScene(scene) ==
  /\ Len(view.calls) < MaxPlays
  /\ ~view.showDevicePicker
  /\ view' = [view EXCEPT
       !.errorMessage = "null",
       !.playingSceneId = scene,
       !.owner = Len(view.calls) + 1,
       !.calls = Append(@, PlayCall("playScene", scene, Len(view.calls) + 1))]
  /\ UNCHANGED clientVars

\* playOnDevice up to its await (lines 94-99); the picker lists the
\* available devices
playOnDevice(device) ==
  /\ Len(view.calls) < MaxPlays
  /\ view.showDevicePicker
  /\ device \in view.availableDevices
  /\ IF view.pendingScene = "null"
     THEN view' = [view EXCEPT !.dropped = TRUE]
     ELSE view' = [view EXCEPT
            !.showDevicePicker = FALSE,
            !.calls = Append(@, PlayCall("playOnDevice", view.pendingScene,
                                         view.pendingOwner))]
  /\ UNCHANGED clientVars

\* cancelDevicePicker (lines 112-116)
cancelDevicePicker ==
  /\ view.showDevicePicker
  /\ view' = ClearPending(ClearPlaying(
               [view EXCEPT !.showDevicePicker = FALSE], view.pendingOwner))
  /\ UNCHANGED clientVars

\* startPlayback settles (lines 71-91 and 101-109)
PlaybackResults == {"success", "Device not found or offline", "Playback failed"}
startPlaybackSettles(i) ==
  /\ i <= Len(view.calls)
  /\ view.calls[i].pc = "start"
  /\ \E result \in PlaybackResults :
       LET call == view.calls[i] IN
       IF result = "success"
       THEN view' = [view EXCEPT !.calls[i].pc = "volume"]
       ELSE IF call.fn = "playOnDevice"
       THEN view' = ClearPending(ClearPlaying(
                      [view EXCEPT !.calls[i].pc = "finished",
                                   !.errorMessage = result], call.origin))
       ELSE IF result = "Device not found or offline"
       THEN view' = [view EXCEPT !.calls[i].pc = "devices",
                                 !.pendingScene = call.scene,
                                 !.pendingOwner = call.origin]
       ELSE view' = ClearPlaying([view EXCEPT !.calls[i].pc = "finished",
                                              !.errorMessage = result],
                                 call.origin)
  /\ UNCHANGED clientVars

\* setVolume settles: handlePlaybackSuccess sets the timer (lines 57-63)
setVolumeSettles(i) ==
  /\ i <= Len(view.calls)
  /\ view.calls[i].pc = "volume"
  /\ view' = [view EXCEPT !.calls[i].pc = "timer"]
  /\ UNCHANGED clientVars

\* the callback of setTimeout runs after PLAYING_FEEDBACK_MS (lines 59-62)
feedbackTimer(i) ==
  /\ i <= Len(view.calls)
  /\ view.calls[i].pc = "timer"
  /\ LET v == ClearPlaying([view EXCEPT !.calls[i].pc = "finished"],
                           view.calls[i].origin)
     IN view' = IF view.calls[i].fn = "playOnDevice" THEN ClearPending(v)
                ELSE v
  /\ UNCHANGED clientVars

\* getAvailableDevices settles (lines 76-87)
DeviceResults ==
  {[throws |-> TRUE, devices |-> {}], [throws |-> FALSE, devices |-> {}],
   [throws |-> FALSE, devices |-> Devices]}
getAvailableDevicesSettles(i) ==
  /\ i <= Len(view.calls)
  /\ view.calls[i].pc = "devices"
  /\ \E result \in DeviceResults :
       LET v == [view EXCEPT !.calls[i].pc = "finished"] IN
       IF result.throws
       THEN view' = ClearPlaying([v EXCEPT !.errorMessage = "Failed to fetch devices"],
                                 view.calls[i].origin)
       ELSE IF result.devices = {}
       THEN view' = ClearPlaying(
                      [v EXCEPT !.availableDevices = {},
                                !.errorMessage = "No devices available"],
                      view.calls[i].origin)
       ELSE view' = [v EXCEPT !.availableDevices = result.devices,
                              !.showDevicePicker = TRUE]
  /\ UNCHANGED clientVars

ViewInit ==
  /\ kv = EmptyStore
  /\ slots = [r \in Slots |-> Idle]
  /\ arrivals = 0
  /\ lastPut = [u \in Users |-> NoDoc]
  /\ done = Idle
  /\ client = ClientIdle
  /\ view = ViewIdle

ViewNext ==
  \/ \E scene \in ViewScenes : playScene(scene)
  \/ \E device \in Devices : playOnDevice(device)
  \/ cancelDevicePicker
  \/ \E i \in PlayIds :
       \/ startPlaybackSettles(i)
       \/ setVolumeSettles(i)
       \/ feedbackTimer(i)
       \/ getAvailableDevicesSettles(i)

ViewSpec == ViewInit /\ [][ViewNext]_vars

ViewTypeOK ==
  /\ Len(view.calls) <= MaxPlays
  /\ view.playingSceneId \in ViewScenes \cup {"null"}
  /\ view.pendingScene \in ViewScenes \cup {"null"}
  /\ \A i \in 1..Len(view.calls) :
       view.calls[i].pc \in {"start", "volume", "devices", "timer", "finished"}

\* C38: whenever the device picker is open, pendingScene is not null and
\* availableDevices is not empty, and no choice of a device is dropped.
C38_PickerInvariant ==
  /\ view.showDevicePicker =>
       (view.pendingScene # "null" /\ view.availableDevices # {})
  /\ ~view.dropped

\* C39: playingSceneId is cleared only by the call that set it (its timer,
\* its failure, the cancel of its picker); a play that fails without
\* opening the picker leaves playingSceneId null and errorMessage set.
C39_ClearedByOwner == view.clear.by = view.clear.of
C39_FailedPlay ==
  \A i \in PlayIds :
    (/\ i <= Len(view.calls)
     /\ view.calls[i].fn = "playScene"
     /\ view.calls[i].pc \in {"start", "devices"}
     /\ view'.calls[i].pc = "finished") =>
       (view'.playingSceneId = "null" /\ view'.errorMessage # "null")
C39_IndicatorOwnership == []C39_ClearedByOwner /\ [][C39_FailedPlay]_vars
====
